---- MODULE Spec2Model ----
(***************************************************************************)
(* Model of the Book AI backend (src/main.py): the in-memory index         *)
(* (books_db, all_chunks, chunk_to_book, search_index) and the request     *)
(* handlers that read and write it.                                        *)
(*                                                                         *)
(* A Python str is a sequence of one-character strings; a Python list is a *)
(* sequence; a dict is a sequence of entries in insertion order with       *)
(* unique keys.                                                            *)
(***************************************************************************)
EXTENDS Integers, Sequences, FiniteSets, TLC

(* ------------------------------ bounds --------------------------------- *)

\* Uploads that store a document between two clears.
MaxUploads == 2
\* The same, where only the two small documents are uploaded.
MaxSmallUploads == 3
\* Uploads one run of concurrent handlers starts.
MaxThreadUploads == 2
\* Words of the large document (three chunks of at most 500 words).
BigWords == 1001
\* Longest text and largest chunk size tried on the chunker alone.
MaxTextLen == 7
MaxChunkSize == 3

(* --------------------------- Python strings ---------------------------- *)

Min(a, b) == IF a < b THEN a ELSE b

\* The characters str.split() and str.strip() treat as whitespace.
Whitespace == {" ", "\n", "\t"}

IsSpace(c) == c \in Whitespace

\* s.strip(): s without its leading and trailing whitespace.
strip(s) ==
  IF \A i \in 1..Len(s) : IsSpace(s[i]) THEN <<>>
  ELSE LET first == CHOOSE i \in 1..Len(s) :
                      ~IsSpace(s[i]) /\ \A j \in 1..(i - 1) : IsSpace(s[j])
           last  == CHOOSE i \in 1..Len(s) :
                      ~IsSpace(s[i]) /\ \A j \in (i + 1)..Len(s) : IsSpace(s[j])
       IN  SubSeq(s, first, last)

\* The positions lo..hi of s at which a word starts, in increasing order.
RECURSIVE WordStarts(_, _, _)
WordStarts(s, lo, hi) ==
  IF lo > hi THEN <<>>
  ELSE IF lo = hi
       THEN IF ~IsSpace(s[lo]) /\ (lo = 1 \/ IsSpace(s[lo - 1])) THEN <<lo>> ELSE <<>>
       ELSE LET mid == (lo + hi) \div 2
            IN  WordStarts(s, lo, mid) \o WordStarts(s, mid + 1, hi)

\* The last position of the word that starts at position b of s.
WordEnd(s, b) ==
  CHOOSE e \in b..Len(s) :
    /\ \A j \in b..e : ~IsSpace(s[j])
    /\ (e = Len(s) \/ IsSpace(s[e + 1]))

\* s.split(): the maximal runs of non-whitespace characters, in order.
str_split(s) ==
  LET starts == WordStarts(s, 1, Len(s))
  IN  [k \in 1..Len(starts) |-> SubSeq(s, starts[k], WordEnd(s, starts[k]))]

\* ' '.join(ws[lo..hi]) (1-based, inclusive).
RECURSIVE JoinRange(_, _, _)
JoinRange(ws, lo, hi) ==
  IF lo > hi THEN <<>>
  ELSE IF lo = hi THEN ws[lo]
       ELSE LET mid == (lo + hi) \div 2
            IN  JoinRange(ws, lo, mid) \o <<" ">> \o JoinRange(ws, mid + 1, hi)

\* len(range(0, n, step)) for step >= 1.
RangeLen(n, step) == (n + step - 1) \div step

(* ------------------------------ chunker -------------------------------- *)

ChunkNonBlank(chunk) == strip(chunk) # <<>>

\* Faulty variant: each window is sliced one word short
\* (words[i:i + chunk_size - 1]).
split_short_window(text, chunk_size) ==
  LET words  == str_split(text)
      window == [k \in 1..RangeLen(Len(words), chunk_size) |->
                  JoinRange(words, (k - 1) * chunk_size + 1,
                            Min(k * chunk_size - 1, Len(words)))]
  IN  SelectSeq(window, ChunkNonBlank)

split_text_into_chunks(text, chunk_size) ==
  LET words  == str_split(text)
      window == [k \in 1..RangeLen(Len(words), chunk_size) |->
                  JoinRange(words, (k - 1) * chunk_size + 1,
                            Min(k * chunk_size, Len(words)))]
  IN  SelectSeq(window, ChunkNonBlank)

(* --------------------------- request inputs ---------------------------- *)

\* chunk_size=500, the default split_text_into_chunks is called with.
DefaultChunkSize == 500

\* Names a file part can carry.
BookNames == {"a.pdf", "b.pdf"}

\* One page of BigWords one-letter words.
BigPage == [i \in 1..(2 * BigWords) |-> IF i % 2 = 1 THEN "x" ELSE " "]

\* The PDF files sent: one PyPDF2 cannot read, one without pages, a scan
\* whose page has no text, a one-word file, a two-page file of two words,
\* and a large file.
PdfFiles == {"unreadable", "no_pages", "scanned", "one_page", "two_pages", "big"}
ReadablePdfs == PdfFiles \ {"unreadable"}

\* page.extract_text() of each page of a readable file.
Pages(file) ==
  CASE file = "no_pages"  -> <<>>
    [] file = "scanned"   -> << <<>> >>
    [] file = "one_page"  -> << <<"x">> >>
    [] file = "two_pages" -> << <<"y", "\n">>, <<" ", "z">> >>
    [] file = "big"       -> << BigPage >>

\* The multipart requests of /upload: one without a file part, one whose
\* file part is empty and has no name (no file selected), and the files
\* sent under each name.
FilePart(filename, file) ==
  [has_file |-> TRUE, filename |-> filename, file |-> file]
NoFilePart == [has_file |-> FALSE, filename |-> "", file |-> "unreadable"]
NoFileSelected == FilePart("", "unreadable")
UploadRequests ==
  {NoFilePart, NoFileSelected} \cup
  {FilePart("a.pdf", f) : f \in {"unreadable", "scanned", "two_pages", "big"}} \cup
  {FilePart("b.pdf", f) : f \in {"no_pages", "one_page", "big"}}

\* JSON bodies of /ask and /which-book: no JSON at all, an object without
\* the key, and objects carrying the key.
NoJson == [is_json |-> FALSE, has_key |-> FALSE, value |-> <<>>]
NoKey  == [is_json |-> TRUE, has_key |-> FALSE, value |-> <<>>]
Queries == { <<" ", "\t">>, <<"x">>, <<" ", "y">> }
Bodies == {NoJson, NoKey} \cup
          {[is_json |-> TRUE, has_key |-> TRUE, value |-> q] : q \in Queries}

(* --------------------------- text extraction --------------------------- *)

\* text = ""; for page in pdf_reader.pages: text += page.extract_text() + " "
RECURSIVE read_pdf_text(_)
read_pdf_text(pages) ==
  IF pages = <<>> THEN <<>>
  ELSE read_pdf_text(SubSeq(pages, 1, Len(pages) - 1))
         \o pages[Len(pages)] \o <<" ">>

\* The text and the chunks of each readable file, computed once per file.
extracted == [file \in ReadablePdfs |-> read_pdf_text(Pages(file))]
chunked == [file \in ReadablePdfs |->
             split_text_into_chunks(extracted[file], DefaultChunkSize)]

(* ------------------------- embedding and search ------------------------ *)

Count(s, c) == Cardinality({i \in 1..Len(s) : s[i] = c})

\* search_model.encode of one text: a deterministic vector of the text.
text_vector(s) == <<Count(s, "x"), Count(s, "y")>>

\* The vector of every text the model is given to encode (the chunks of
\* the files and the trimmed queries), computed once per text.
EncodedTexts ==
  UNION {{chunked[file][i] : i \in 1..Len(chunked[file])} : file \in ReadablePdfs}
    \cup {strip(q) : q \in Queries}
embeddings == [s \in EncodedTexts |-> text_vector(s)]
Embed(s) == embeddings[s]

\* search_model.encode of a list of texts.
encode(texts) == [i \in 1..Len(texts) |-> Embed(texts[i])]

\* search_index = None, and a faiss.IndexFlatL2 holding the given vectors.
None == [present |-> FALSE, vectors |-> <<>>]
IndexFlatL2(vectors) == [present |-> TRUE, vectors |-> vectors]

\* Squared L2 distance, the metric of faiss.IndexFlatL2.
L2(u, v) == (u[1] - v[1]) * (u[1] - v[1]) + (u[2] - v[2]) * (u[2] - v[2])

\* search_index.search(q, k)[1][0]: the 0-based labels of the k vectors
\* nearest to q, nearest first (equal distances by label); where the
\* index holds fewer than k vectors the remaining labels are -1.
index_search(index, q, k) ==
  LET n    == Len(index.vectors)
      d    == [i \in 1..n |-> L2(index.vectors[i], q)]
      rank == [i \in 1..n |->
                Cardinality({j \in 1..n : d[j] < d[i] \/ (d[j] = d[i] /\ j < i)})]
  IN  [r \in 1..k |->
        IF r <= n THEN (CHOOSE i \in 1..n : rank[i] = r - 1) - 1 ELSE -1]

\* Whether lst[idx] raises IndexError (idx as Python takes it: 0-based,
\* negative from the end).
IndexError(lst, idx) == idx >= Len(lst) \/ idx < -Len(lst)

\* lst[idx] in Python.
PyIndex(lst, idx) == IF idx >= 0 THEN lst[idx + 1] ELSE lst[Len(lst) + idx + 1]

(* -------------------------------- state -------------------------------- *)

VARIABLES
  books_db,       \* dict filename -> book record, in insertion order
  all_chunks,     \* list of chunk texts
  chunk_to_book,  \* list of filenames, parallel to all_chunks
  search_index,   \* None, or the FAISS index and the vectors it holds
  resp,           \* the last request and the response it was given
  uploaded,       \* history: the name and file of every upload that reached
                  \* the append loop since the last clear, in order, and
                  \* whether it went on to return 200
  before,         \* history: the sizes of the index when the last request
                  \* arrived
  split_call,     \* a call of split_text_into_chunks on its own: the
                  \* arguments and, once it has returned, the result
  threads         \* handlers running at the same time: for each, the
                  \* statement it is at and its local variables

index_state == <<books_db, all_chunks, chunk_to_book, search_index>>
vars == <<books_db, all_chunks, chunk_to_book, search_index, resp, uploaded,
          before, split_call, threads>>

\* What a request left behind: the endpoint, what was sent, the status and
\* JSON body returned, and the labels the index search returned (if any).
Response(op, request, status, body, indices) ==
  [op |-> op, request |-> request, status |-> status, body |-> body,
   indices |-> indices]

NoRequest == [has_body |-> FALSE]

\* The sizes of the index, as recorded in before.
Sizes ==
  [books |-> Len(books_db), chunks |-> Len(all_chunks),
   indexed |-> search_index # None]

Error(message) == [error |-> message]

\* Every request served on its own records the sizes it found.
Served == before' = Sizes /\ UNCHANGED <<split_call, threads>>

(* ------------------------------- upload -------------------------------- *)

\* Faulty variant: "if not text", without the strip.
HasTextUnstripped(text) == text # <<>>

\* The test of "if not text.strip()".
HasText(text) == strip(text) # <<>>

\* Faulty variant: a list of records appended to, so that an existing name
\* gets a second entry.
DictSetAppends(d, key, value) == Append(d, value)

\* Faulty variant: d.setdefault(key, value), which keeps the entry of an
\* existing key as it was.
DictSetDefault(d, key, value) ==
  IF \E i \in 1..Len(d) : d[i].name = key THEN d ELSE Append(d, value)

\* d[key] = value on an insertion-ordered dict: an existing key keeps its
\* place, a new key goes last.
DictSet(d, key, value) ==
  IF \E i \in 1..Len(d) : d[i].name = key
  THEN [i \in 1..Len(d) |-> IF d[i].name = key THEN value ELSE d[i]]
  ELSE Append(d, value)

\* Faulty variant: chunk_count taken from the text instead of the chunks.
BookRecordCountsText(db, filename, text, chunks) ==
  [id |-> Len(db), name |-> filename, chunks |-> chunks,
   chunk_count |-> Len(text), size |-> Len(text)]

\* The record upload_book stores in books_db.
BookRecord(db, filename, text, chunks) ==
  [id |-> Len(db), name |-> filename, chunks |-> chunks,
   chunk_count |-> Len(chunks), size |-> Len(text)]

\* Faulty variant: the owner is appended once, after the loop.
AppendChunksOwnerOnce(flat, owners, chunks, filename) ==
  [all_chunks |-> flat \o chunks, chunk_to_book |-> Append(owners, filename)]

\* Faulty variant: insert(0, ...) in place of append, which puts every
\* chunk in front of the older ones.
RECURSIVE InsertChunksInFront(_, _, _, _)
InsertChunksInFront(flat, owners, chunks, filename) ==
  IF chunks = <<>> THEN [all_chunks |-> flat, chunk_to_book |-> owners]
  ELSE InsertChunksInFront(<<Head(chunks)>> \o flat, <<filename>> \o owners,
                           Tail(chunks), filename)

\* for chunk in chunks: all_chunks.append(chunk); chunk_to_book.append(name)
RECURSIVE AppendChunks(_, _, _, _)
AppendChunks(flat, owners, chunks, filename) ==
  IF chunks = <<>> THEN [all_chunks |-> flat, chunk_to_book |-> owners]
  ELSE AppendChunks(Append(flat, Head(chunks)), Append(owners, filename),
                    Tail(chunks), filename)

\* create_search_index(): nothing without chunks; otherwise the index is
\* replaced by one over the vectors of all chunks, unless encode raises.
create_search_index(chunks, index, encode_ok) ==
  IF chunks = <<>> THEN [raised |-> FALSE, search_index |-> index]
  ELSE IF ~encode_ok THEN [raised |-> TRUE, search_index |-> index]
  ELSE [raised |-> FALSE, search_index |-> IndexFlatL2(encode(chunks))]

UploadRequest(has_file, filename, file) ==
  [has_file |-> has_file, filename |-> filename, file |-> file]

Reply(has_file, filename, file, status, body, indices) ==
  Response("upload", UploadRequest(has_file, filename, file), status, body,
           indices)

upload_book(has_file, filename, file, encode_ok) ==
  /\ Served
  /\ IF ~has_file
     THEN /\ resp' = Reply(has_file, filename, file, 400,
                          Error("No file provided"), <<>>)
          /\ UNCHANGED <<index_state, uploaded>>
     ELSE IF filename = ""
     THEN /\ resp' = Reply(has_file, filename, file, 400,
                          Error("No file selected"), <<>>)
          /\ UNCHANGED <<index_state, uploaded>>
     ELSE IF file \notin ReadablePdfs
     THEN /\ resp' = Reply(has_file, filename, file, 500,
                          Error("exception"), <<>>)
          /\ UNCHANGED <<index_state, uploaded>>
     ELSE IF ~HasText(extracted[file])
     THEN /\ resp' = Reply(has_file, filename, file, 400,
                          Error("No text found in PDF"), <<>>)
          /\ UNCHANGED <<index_state, uploaded>>
     ELSE LET text   == extracted[file]
              chunks == chunked[file]
              db     == DictSet(books_db, filename,
                                BookRecord(books_db, filename, text, chunks))
              lists  == AppendChunks(all_chunks, chunk_to_book, chunks, filename)
              built  == create_search_index(lists.all_chunks, search_index,
                                            encode_ok)
          IN  /\ books_db' = db
              /\ all_chunks' = lists.all_chunks
              /\ chunk_to_book' = lists.chunk_to_book
              /\ search_index' = built.search_index
              /\ uploaded' = Append(uploaded, [name |-> filename, file |-> file,
                                               ok |-> ~built.raised])
              /\ resp' = IF built.raised
                         THEN Reply(has_file, filename, file, 500,
                                    Error("exception"), <<>>)
                         ELSE Reply(has_file, filename, file, 200,
                                    [success |-> TRUE, book_name |-> filename,
                                     chunks |-> Len(chunks),
                                     total_books |-> Len(db)], <<>>)

(* -------------------------------- clear -------------------------------- *)

\* Faulty variant: search_index is missing from the global statement, so
\* the assignment binds a local and the index survives.
clear_books_keeps_index ==
  /\ Served
  /\ books_db' = <<>>
  /\ all_chunks' = <<>>
  /\ chunk_to_book' = <<>>
  /\ search_index' = search_index
  /\ uploaded' = <<>>
  /\ resp' = Response("clear", NoRequest, 200,
                      [success |-> TRUE, message |-> "All books cleared"], <<>>)

clear_books ==
  /\ Served
  /\ books_db' = <<>>
  /\ all_chunks' = <<>>
  /\ chunk_to_book' = <<>>
  /\ search_index' = None
  /\ uploaded' = <<>>
  /\ resp' = Response("clear", NoRequest, 200,
                      [success |-> TRUE, message |-> "All books cleared"], <<>>)

(* ------------------------------ home, list ----------------------------- *)

home ==
  /\ Served
  /\ resp' = Response("home", NoRequest, 200,
                      [status |-> "running", books_loaded |-> Len(books_db),
                       total_chunks |-> Len(all_chunks)], <<>>)
  /\ UNCHANGED <<index_state, uploaded>>

list_books ==
  /\ Served
  /\ resp' = Response("books", NoRequest, 200,
                      [success |-> TRUE,
                       books |-> [i \in 1..Len(books_db) |->
                                   [name |-> books_db[i].name,
                                    chunks |-> books_db[i].chunk_count,
                                    size |-> books_db[i].size \div 1024]],
                       total_books |-> Len(books_db),
                       total_chunks |-> Len(all_chunks)], <<>>)
  /\ UNCHANGED <<index_state, uploaded>>

(* --------------------------------- ask --------------------------------- *)

\* data.get(key, '') of a JSON object body.
BodyGet(body) == IF body.has_key THEN body.value ELSE <<>>

\* passage[:300] + '...' if len(passage) > 300 else passage
Truncate(passage) ==
  IF Len(passage) > 300 THEN SubSeq(passage, 1, 300) \o <<".", ".", ".">>
  ELSE passage

\* Faulty variant: the book is read at the loop counter, not at the label.
relevant_passages_by_rank(indices) ==
  [j \in 1..Len(indices) |->
    [text |-> Truncate(PyIndex(all_chunks, indices[j])),
     book |-> PyIndex(chunk_to_book, j - 1)]]

\* The passages and the book set ask_question collects for the labels.
relevant_passages(indices) ==
  [j \in 1..Len(indices) |->
    [text |-> Truncate(PyIndex(all_chunks, indices[j])),
     book |-> PyIndex(chunk_to_book, indices[j])]]

books_used(indices) ==
  {PyIndex(chunk_to_book, indices[j]) : j \in 1..Len(indices)}

\* Faulty variant: a question that finds chunks without an index calls
\* create_search_index() before it answers.
ask_question_rebuilds(body, encode_ok) ==
  /\ Served
  /\ UNCHANGED <<books_db, all_chunks, chunk_to_book, uploaded>>
  /\ IF ~body.is_json
     THEN /\ resp' = Response("ask", body, 500, Error("exception"), <<>>)
          /\ UNCHANGED search_index
     ELSE IF strip(BodyGet(body)) = <<>>
     THEN /\ resp' = Response("ask", body, 400, Error("No question provided"), <<>>)
          /\ UNCHANGED search_index
     ELSE IF all_chunks = <<>>
     THEN /\ resp' = Response("ask", body, 400, Error("No books loaded yet"), <<>>)
          /\ UNCHANGED search_index
     ELSE IF ~encode_ok
     THEN /\ resp' = Response("ask", body, 500, Error("exception"), <<>>)
          /\ UNCHANGED search_index
     ELSE LET index == IF search_index = None
                       THEN IndexFlatL2(encode(all_chunks)) ELSE search_index
              num_results == Min(5, Len(all_chunks))
              indices == index_search(index, Embed(strip(BodyGet(body))),
                                      num_results)
          IN  /\ search_index' = index
              /\ IF \E j \in 1..Len(indices) :
                      \/ IndexError(chunk_to_book, indices[j])
                      \/ IndexError(all_chunks, indices[j])
                 THEN resp' = Response("ask", body, 500, Error("exception"), indices)
                 ELSE resp' = Response("ask", body, 200,
                                       [success |-> TRUE,
                                        passages |-> relevant_passages(indices),
                                        books_used |-> books_used(indices)],
                                       indices)

\* The answer text (a fixed lead-in and the first 500 characters of the
\* joined passages) is built from the same reads and is left out of the body.
ask_question(body, encode_ok) ==
  /\ Served
  /\ UNCHANGED <<index_state, uploaded>>
  /\ IF ~body.is_json
     THEN resp' = Response("ask", body, 500, Error("exception"), <<>>)
     ELSE IF strip(BodyGet(body)) = <<>>
     THEN resp' = Response("ask", body, 400, Error("No question provided"), <<>>)
     ELSE IF all_chunks = <<>> \/ search_index = None
     THEN resp' = Response("ask", body, 400, Error("No books loaded yet"), <<>>)
     ELSE IF ~encode_ok
     THEN resp' = Response("ask", body, 500, Error("exception"), <<>>)
     ELSE LET num_results == Min(5, Len(all_chunks))
              indices == index_search(search_index, Embed(strip(BodyGet(body))),
                                      num_results)
          IN  IF \E j \in 1..Len(indices) :
                   \/ IndexError(chunk_to_book, indices[j])
                   \/ IndexError(all_chunks, indices[j])
              THEN resp' = Response("ask", body, 500, Error("exception"), indices)
              ELSE resp' = Response("ask", body, 200,
                                    [success |-> TRUE,
                                     passages |-> relevant_passages(indices),
                                     books_used |-> books_used(indices)],
                                    indices)

(* ------------------------------ which-book ----------------------------- *)

\* book_counts[book] = book_counts.get(book, 0) + 1 on an ordered dict.
CountOne(counts, book) ==
  IF \E i \in 1..Len(counts) : counts[i].book = book
  THEN [i \in 1..Len(counts) |->
         IF counts[i].book = book
         THEN [book |-> book, mentions |-> counts[i].mentions + 1]
         ELSE counts[i]]
  ELSE Append(counts, [book |-> book, mentions |-> 1])

\* book_counts after the loop over the first n labels.
RECURSIVE book_counts(_, _)
book_counts(indices, n) ==
  IF n = 0 THEN <<>>
  ELSE CountOne(book_counts(indices, n - 1), PyIndex(chunk_to_book, indices[n]))

\* Faulty variant: an ascending sort followed by a reversal, which turns
\* the order of items with equal mentions around.
sorted_books_reversed(counts) ==
  LET n   == Len(counts)
      pos == [i \in 1..n |->
               Cardinality({j \in 1..n :
                 \/ counts[j].mentions > counts[i].mentions
                 \/ (counts[j].mentions = counts[i].mentions /\ j > i)})]
  IN  [r \in 1..n |-> counts[CHOOSE i \in 1..n : pos[i] = r - 1]]

\* sorted(items, key=mentions, reverse=True): descending, and stable, so
\* items with equal mentions keep their order.
sorted_books(counts) ==
  LET n   == Len(counts)
      pos == [i \in 1..n |->
               Cardinality({j \in 1..n :
                 \/ counts[j].mentions > counts[i].mentions
                 \/ (counts[j].mentions = counts[i].mentions /\ j < i)})]
  IN  [r \in 1..n |-> counts[CHOOSE i \in 1..n : pos[i] = r - 1]]

which_book(body, encode_ok) ==
  /\ Served
  /\ UNCHANGED <<index_state, uploaded>>
  /\ IF ~body.is_json
     THEN resp' = Response("which-book", body, 500, Error("exception"), <<>>)
     ELSE IF strip(BodyGet(body)) = <<>>
     THEN resp' = Response("which-book", body, 400, Error("No topic provided"), <<>>)
     ELSE IF all_chunks = <<>> \/ search_index = None
     THEN resp' = Response("which-book", body, 400, Error("No books loaded"), <<>>)
     ELSE IF ~encode_ok
     THEN resp' = Response("which-book", body, 500, Error("exception"), <<>>)
     ELSE LET num_results == Min(10, Len(all_chunks))
              indices == index_search(search_index, Embed(strip(BodyGet(body))),
                                      num_results)
          IN  IF \E j \in 1..Len(indices) : IndexError(chunk_to_book, indices[j])
              THEN resp' = Response("which-book", body, 500, Error("exception"), indices)
              ELSE resp' = Response("which-book", body, 200,
                                    [success |-> TRUE,
                                     topic |-> strip(BodyGet(body)),
                                     results |->
                                       sorted_books(book_counts(indices,
                                                                Len(indices)))],
                                    indices)

(* ---------------------------- specification ---------------------------- *)

\* The module-level assignments of lines 24-27: the process starts empty.
Started ==
  /\ books_db = <<>>
  /\ all_chunks = <<>>
  /\ chunk_to_book = <<>>
  /\ search_index = None
  /\ uploaded = <<>>
  /\ before = [books |-> 0, chunks |-> 0, indexed |-> FALSE]
  /\ resp = Response("start", NoRequest, 200, [status |-> "running"], <<>>)

NoCall == [text |-> <<>>, chunk_size |-> DefaultChunkSize, chunks |-> <<>>,
           returned |-> FALSE]

\* No handler is running.
NoThreads ==
  [upload |-> [pc |-> "idle", started |-> 0, filename |-> "", file |-> "",
               book_id |-> 0, i |-> 0, embeddings |-> <<>>, status |-> 0],
   clear  |-> [pc |-> "idle"],
   ask    |-> [pc |-> "idle", question |-> <<>>, num_results |-> 0,
               indices |-> <<>>, book_name |-> "", passages |-> <<>>,
               status |-> 0, writers |-> {}]]

Init == Started /\ split_call = NoCall /\ threads = NoThreads

\* Whether search_model.encode returns or raises is drawn for the requests
\* that call it: an upload that gets as far as create_search_index, a query
\* that gets past its two checks.
UploadEncodes(req) ==
  /\ req.has_file /\ req.filename # ""
  /\ req.file \in ReadablePdfs
  /\ HasText(extracted[req.file])

QueryEncodes(body) ==
  /\ body.is_json /\ strip(BodyGet(body)) # <<>>
  /\ all_chunks # <<>> /\ search_index # None

EncodeOutcomes(called) == IF called THEN BOOLEAN ELSE {TRUE}

Next ==
  \/ \E req \in UploadRequests :
       \E encode_ok \in EncodeOutcomes(UploadEncodes(req)) :
         /\ Len(uploaded) < MaxUploads
         /\ upload_book(req.has_file, req.filename, req.file, encode_ok)
  \/ \E body \in Bodies :
       \E encode_ok \in EncodeOutcomes(QueryEncodes(body)) :
         ask_question(body, encode_ok)
  \/ \E body \in Bodies :
       \E encode_ok \in EncodeOutcomes(QueryEncodes(body)) :
         which_book(body, encode_ok)
  \/ list_books
  \/ home
  \/ clear_books

Spec == Init /\ [][Next]_vars

(* ----------------------- uploads of small documents -------------------- *)

\* The uploads of the two small documents, each under its own name, with
\* list_books and clear: more uploads between two clears than Spec takes.
SmallUploads == {FilePart("a.pdf", "two_pages"), FilePart("b.pdf", "one_page")}

NextSmall ==
  \/ \E req \in SmallUploads :
       \E encode_ok \in EncodeOutcomes(UploadEncodes(req)) :
         /\ Len(uploaded) < MaxSmallUploads
         /\ upload_book(req.has_file, req.filename, req.file, encode_ok)
  \/ list_books
  \/ clear_books

SpecSmall == Init /\ [][NextSmall]_vars

(* ------------------------- concurrent handlers ------------------------- *)

\* The server of app.run() gives each request a thread, and no handler
\* takes a lock: an upload, a clear and an ask run here one statement at a
\* time, in any interleaving. Each action is one statement that reads or
\* writes a global; the statements before it that touch locals only are
\* part of it.

Running(t) == t.pc \notin {"idle", "done"}

\* The writers that ran while the ask was running.
Noted(writer) ==
  IF Running(threads.ask) THEN threads.ask.writers \cup {writer}
  ELSE threads.ask.writers

OnlyThreads == UNCHANGED <<resp, uploaded, before, split_call>>

UploadStep(u) ==
  threads' = [threads EXCEPT !.upload = u, !.ask.writers = Noted("upload")]

\* Lines 68-93: the request is read, its text extracted and split.
upload_begin(req) ==
  /\ ~Running(threads.upload)
  /\ threads.upload.started < MaxThreadUploads
  /\ threads' = [threads EXCEPT !.upload =
                   [pc |-> "l95", started |-> @.started + 1,
                    filename |-> req.filename, file |-> req.file,
                    book_id |-> 0, i |-> 1, embeddings |-> <<>>, status |-> 0]]
  /\ UNCHANGED index_state /\ OnlyThreads

\* Line 95: book_id = len(books_db)
upload_l95 ==
  /\ threads.upload.pc = "l95"
  /\ UploadStep([threads.upload EXCEPT !.pc = "l96", !.book_id = Len(books_db)])
  /\ UNCHANGED index_state /\ OnlyThreads

\* Lines 96-102: books_db[file.filename] = {...}
upload_l96 ==
  LET u == threads.upload
      record == [BookRecord(books_db, u.filename, extracted[u.file],
                            chunked[u.file]) EXCEPT !.id = u.book_id]
  IN  /\ u.pc = "l96"
      /\ books_db' = DictSet(books_db, u.filename, record)
      /\ UploadStep([u EXCEPT !.pc = "l106"])
      /\ UNCHANGED <<all_chunks, chunk_to_book, search_index>> /\ OnlyThreads

\* Line 106: all_chunks.append(chunk)
upload_l106 ==
  LET u == threads.upload
  IN  /\ u.pc = "l106"
      /\ all_chunks' = Append(all_chunks, chunked[u.file][u.i])
      /\ UploadStep([u EXCEPT !.pc = "l107"])
      /\ UNCHANGED <<books_db, chunk_to_book, search_index>> /\ OnlyThreads

\* Line 107: chunk_to_book.append(file.filename), and the loop goes on.
upload_l107 ==
  LET u == threads.upload
  IN  /\ u.pc = "l107"
      /\ chunk_to_book' = Append(chunk_to_book, u.filename)
      /\ UploadStep([u EXCEPT !.i = @ + 1,
                              !.pc = IF u.i < Len(chunked[u.file])
                                     THEN "l106" ELSE "l44"])
      /\ UNCHANGED <<books_db, all_chunks, search_index>> /\ OnlyThreads

\* Line 44 of create_search_index: if not all_chunks: return False
upload_l44 ==
  LET u == threads.upload
  IN  /\ u.pc = "l44"
      /\ UploadStep([u EXCEPT !.pc = IF all_chunks = <<>> THEN "l114" ELSE "l48"])
      /\ UNCHANGED index_state /\ OnlyThreads

\* Line 48: embeddings = search_model.encode(all_chunks)
upload_l48 ==
  LET u == threads.upload
  IN  /\ u.pc = "l48"
      /\ UploadStep([u EXCEPT !.pc = "l51", !.embeddings = encode(all_chunks)])
      /\ UNCHANGED index_state /\ OnlyThreads

\* Line 51: search_index = faiss.IndexFlatL2(dimension), an empty index.
upload_l51 ==
  LET u == threads.upload
  IN  /\ u.pc = "l51"
      /\ search_index' = IndexFlatL2(<<>>)
      /\ UploadStep([u EXCEPT !.pc = "l52"])
      /\ UNCHANGED <<books_db, all_chunks, chunk_to_book>> /\ OnlyThreads

\* Line 52: search_index.add(embeddings); on None it raises and the
\* handler answers 500.
upload_l52 ==
  LET u == threads.upload
  IN  /\ u.pc = "l52"
      /\ IF search_index = None
         THEN /\ UploadStep([u EXCEPT !.pc = "done", !.status = 500])
              /\ UNCHANGED index_state
         ELSE /\ search_index' = IndexFlatL2(search_index.vectors \o u.embeddings)
              /\ UploadStep([u EXCEPT !.pc = "l114"])
              /\ UNCHANGED <<books_db, all_chunks, chunk_to_book>>
      /\ OnlyThreads

\* Lines 114-119: the success response.
upload_l114 ==
  LET u == threads.upload
  IN  /\ u.pc = "l114"
      /\ UploadStep([u EXCEPT !.pc = "done", !.status = 200])
      /\ UNCHANGED index_state /\ OnlyThreads

ClearStep(pc) ==
  threads' = [threads EXCEPT !.clear.pc = pc, !.ask.writers = Noted("clear")]

clear_begin ==
  /\ ~Running(threads.clear)
  /\ threads' = [threads EXCEPT !.clear.pc = "l262"]
  /\ UNCHANGED index_state /\ OnlyThreads

\* Line 262: books_db = {}
clear_l262 ==
  /\ threads.clear.pc = "l262"
  /\ books_db' = <<>>
  /\ ClearStep("l263")
  /\ UNCHANGED <<all_chunks, chunk_to_book, search_index>> /\ OnlyThreads

\* Line 263: all_chunks = []
clear_l263 ==
  /\ threads.clear.pc = "l263"
  /\ all_chunks' = <<>>
  /\ ClearStep("l264")
  /\ UNCHANGED <<books_db, chunk_to_book, search_index>> /\ OnlyThreads

\* Line 264: chunk_to_book = []
clear_l264 ==
  /\ threads.clear.pc = "l264"
  /\ chunk_to_book' = <<>>
  /\ ClearStep("l265")
  /\ UNCHANGED <<books_db, all_chunks, search_index>> /\ OnlyThreads

\* Line 265: search_index = None, and the response.
clear_l265 ==
  /\ threads.clear.pc = "l265"
  /\ search_index' = None
  /\ ClearStep("done")
  /\ UNCHANGED <<books_db, all_chunks, chunk_to_book>> /\ OnlyThreads

AskStep(a) == threads' = [threads EXCEPT !.ask = a]

AskAnswers(a, status) == AskStep([a EXCEPT !.pc = "done", !.status = status])

\* Lines 126-133: the question is read from the body; it is not blank.
\* A writer that is part-way through counts as running during the ask.
ask_begin(body) ==
  /\ ~Running(threads.ask)
  /\ AskStep([pc |-> "l136", question |-> strip(BodyGet(body)),
              num_results |-> 0, indices |-> <<>>, book_name |-> "",
              passages |-> <<>>, status |-> 0,
              writers |-> {w \in {"upload", "clear"} : Running(threads[w])}])
  /\ UNCHANGED index_state /\ OnlyThreads

\* Line 136: if not all_chunks or search_index is None: 400
ask_l136 ==
  LET a == threads.ask
  IN  /\ a.pc = "l136"
      /\ IF all_chunks = <<>> \/ search_index = None
         THEN AskAnswers(a, 400)
         ELSE AskStep([a EXCEPT !.pc = "l143"])
      /\ UNCHANGED index_state /\ OnlyThreads

\* Lines 140-143: num_results = min(5, len(all_chunks))
ask_l143 ==
  LET a == threads.ask
  IN  /\ a.pc = "l143"
      /\ AskStep([a EXCEPT !.pc = "l144",
                           !.num_results = Min(5, Len(all_chunks))])
      /\ UNCHANGED index_state /\ OnlyThreads

\* Line 144: search_index.search(question_embedding, num_results). On None
\* it raises; with num_results 0 FAISS either raises or returns no label,
\* by its version.
ask_l144 ==
  LET a == threads.ask
      indices == index_search(search_index, Embed(a.question), a.num_results)
  IN  /\ a.pc = "l144"
      /\ IF search_index = None
         THEN AskAnswers(a, 500)
         ELSE IF a.num_results = 0
         THEN AskAnswers(a, 500) \/ AskStep([a EXCEPT !.pc = "l163"])
         ELSE AskStep([a EXCEPT !.pc = "l154", !.indices = indices])
      /\ UNCHANGED index_state /\ OnlyThreads

\* Line 154: book_name = chunk_to_book[idx]
ask_l154 ==
  LET a == threads.ask
      idx == a.indices[Len(a.passages) + 1]
  IN  /\ a.pc = "l154"
      /\ IF IndexError(chunk_to_book, idx)
         THEN AskAnswers(a, 500)
         ELSE AskStep([a EXCEPT !.pc = "l155",
                                !.book_name = PyIndex(chunk_to_book, idx)])
      /\ UNCHANGED index_state /\ OnlyThreads

\* Lines 155-160: passage = all_chunks[idx], kept with book_name; the loop
\* goes on.
ask_l155 ==
  LET a == threads.ask
      idx == a.indices[Len(a.passages) + 1]
  IN  /\ a.pc = "l155"
      /\ IF IndexError(all_chunks, idx)
         THEN AskAnswers(a, 500)
         ELSE AskStep([a EXCEPT
                !.passages = Append(@, [text |-> Truncate(PyIndex(all_chunks, idx)),
                                        book |-> a.book_name]),
                !.pc = IF Len(a.passages) + 1 < Len(a.indices)
                       THEN "l154" ELSE "l163"])
      /\ UNCHANGED index_state /\ OnlyThreads

\* Lines 163-180: the passages all_chunks[idx] are read again and joined,
\* and the response is built.
ask_l163 ==
  LET a == threads.ask
  IN  /\ a.pc = "l163"
      /\ IF \E j \in 1..Len(a.indices) : IndexError(all_chunks, a.indices[j])
         THEN AskAnswers(a, 500)
         ELSE AskAnswers(a, 200)
      /\ UNCHANGED index_state /\ OnlyThreads

Questions == {body \in Bodies : body.is_json /\ strip(BodyGet(body)) # <<>>}

NextThreads ==
  \/ \E req \in SmallUploads : upload_begin(req)
  \/ upload_l95
  \/ upload_l96
  \/ upload_l106
  \/ upload_l107
  \/ upload_l44
  \/ upload_l48
  \/ upload_l51
  \/ upload_l52
  \/ upload_l114
  \/ clear_begin
  \/ clear_l262
  \/ clear_l263
  \/ clear_l264
  \/ clear_l265
  \/ \E body \in Questions : ask_begin(body)
  \/ ask_l136
  \/ ask_l143
  \/ ask_l144
  \/ ask_l154
  \/ ask_l155
  \/ ask_l163

SpecThreads == Init /\ [][NextThreads]_vars

(* ------------------------- the chunker on its own ---------------------- *)

\* Every text of at most MaxTextLen characters over a letter and two
\* whitespace characters.
Alphabet == {"a", " ", "\n"}
Texts == UNION {[1..n -> Alphabet] : n \in 0..MaxTextLen}

InitChunker ==
  /\ Started
  /\ split_call \in {[text |-> t, chunk_size |-> c, chunks |-> <<>>,
                      returned |-> FALSE] :
                       t \in Texts, c \in 1..MaxChunkSize}
  /\ threads = NoThreads

call_split ==
  /\ ~split_call.returned
  /\ split_call' = [split_call EXCEPT
                      !.chunks = split_text_into_chunks(split_call.text,
                                                        split_call.chunk_size),
                      !.returned = TRUE]
  /\ UNCHANGED <<index_state, resp, uploaded, before, threads>>

SpecChunker == InitChunker /\ [][call_split]_vars

(* ------------------------------ properties ----------------------------- *)

\* The chunks and the owners the uploads of the history put in the lists:
\* for each upload in turn, the chunks of its file, each under its name.
RECURSIVE UploadedChunks(_)
UploadedChunks(n) ==
  IF n = 0 THEN <<>>
  ELSE UploadedChunks(n - 1) \o chunked[uploaded[n].file]

RECURSIVE UploadedOwners(_)
UploadedOwners(n) ==
  IF n = 0 THEN <<>>
  ELSE UploadedOwners(n - 1) \o
         [i \in 1..Len(chunked[uploaded[n].file]) |-> uploaded[n].name]

RECURSIVE SumChunkCount(_, _)
SumChunkCount(db, n) ==
  IF n = 0 THEN 0 ELSE SumChunkCount(db, n - 1) + db[n].chunk_count

AllUploadsOk == \A i \in 1..Len(uploaded) : uploaded[i].ok

NamesDistinct ==
  \A i, j \in 1..Len(uploaded) : uploaded[i].name = uploaded[j].name => i = j

EmptyIndexState == <<<<>>, <<>>, <<>>, None>>

IsQuery(r) == r.op \in {"ask", "which-book"}

\* C1: in every state between requests all_chunks and chunk_to_book have
\* the same length, and position by position they hold the chunks that were
\* uploaded and the name each was uploaded under.
C1_ChunksAlignedWithOwners ==
  /\ Len(all_chunks) = Len(chunk_to_book)
  /\ all_chunks = UploadedChunks(Len(uploaded))
  /\ chunk_to_book = UploadedOwners(Len(uploaded))

\* C1 witness: an upload has just failed with 500 after appending, and the
\* lists hold chunks of a three-chunk file and of another name.
C1_Witness ==
  /\ resp.op = "upload" /\ resp.status = 500
  /\ before.chunks < Len(all_chunks)
  /\ Len(all_chunks) >= 4
  /\ chunk_to_book[1] # chunk_to_book[Len(chunk_to_book)]

\* C2 as stated: after successful uploads under any names, the two lists
\* are as long as the sum of chunk_count over books_db.
C2_LengthsEqualSumAnyNames ==
  AllUploadsOk =>
    /\ Len(all_chunks) = Len(chunk_to_book)
    /\ Len(all_chunks) = SumChunkCount(books_db, Len(books_db))

\* C2 amended: after successful uploads under pairwise distinct names (since
\* the last clear), the two lists are as long as the sum of chunk_count
\* over books_db.
C2_LengthsEqualSumDistinctNames ==
  (AllUploadsOk /\ NamesDistinct) =>
    /\ Len(all_chunks) = Len(chunk_to_book)
    /\ Len(all_chunks) = SumChunkCount(books_db, Len(books_db))

\* C2 witness: two successful uploads under two names, one of three chunks.
C2_Witness ==
  /\ AllUploadsOk /\ NamesDistinct
  /\ Len(uploaded) = 2 /\ Len(books_db) = 2
  /\ Len(all_chunks) = 4

\* C3: an upload that returns an error leaves books_db, all_chunks,
\* chunk_to_book and search_index as they were.
C3_FailedUploadLeavesIndexUnchanged ==
  [][(resp'.op = "upload" /\ resp'.status # 200) => UNCHANGED index_state]_vars

\* C4: between requests, a search_index that is present holds exactly the
\* vectors of the current all_chunks, and it is present whenever all_chunks
\* is not empty.
C4_IndexBuiltFromCurrentChunks ==
  /\ search_index # None => search_index.vectors = encode(all_chunks)
  /\ all_chunks # <<>> => search_index # None

\* C5: after clear the four pieces of state are empty, as at process start,
\* whatever the state before (so also after a second clear).
C5_ClearResetsEverything ==
  resp.op = "clear" => index_state = EmptyIndexState

\* C5 witness: a clear has just emptied an index that held chunks and a
\* search index.
C5_Witness ==
  /\ resp.op = "clear"
  /\ before.chunks > 0 /\ before.books > 0 /\ before.indexed
  /\ index_state = EmptyIndexState

BlankError(r) ==
  r.status = 400 /\ r.body.error \in {"No question provided", "No topic provided"}

NoCorpusError(r) ==
  r.status = 400 /\ r.body.error \in {"No books loaded yet", "No books loaded"}

\* C6: an ask or which-book whose question or topic is blank after trimming
\* is rejected as blank (also when there are no chunks), one that is not
\* blank is rejected as having no corpus when all_chunks is empty, neither
\* changes the state, and one that is not blank is not rejected as having
\* no corpus when all_chunks holds a chunk.
C6_QueryRejections ==
  [][(IsQuery(resp') /\ resp'.request.is_json) =>
       LET blank == strip(BodyGet(resp'.request)) = <<>>
       IN  /\ blank => (BlankError(resp') /\ UNCHANGED index_state)
           /\ (~blank /\ all_chunks = <<>>) =>
                (NoCorpusError(resp') /\ UNCHANGED index_state)
           /\ (~blank /\ all_chunks # <<>>) => ~NoCorpusError(resp')]_vars

RECURSIVE SumMentions(_, _)
SumMentions(results, n) ==
  IF n = 0 THEN 0 ELSE SumMentions(results, n - 1) + results[n].mentions

\* C7: a successful ask returns min(5, len(all_chunks)) passages, the
\* mentions of a successful which-book sum to min(10, len(all_chunks)), and
\* every label the search returned is a position 0..len(all_chunks)-1.
C7_NeighboursClampedAndValid ==
  /\ (resp.op = "ask" /\ resp.status = 200) =>
       Len(resp.body.passages) = Min(5, Len(all_chunks))
  /\ (resp.op = "which-book" /\ resp.status = 200) =>
       SumMentions(resp.body.results, Len(resp.body.results))
         = Min(10, Len(all_chunks))
  /\ IsQuery(resp) =>
       \A j \in 1..Len(resp.indices) :
         resp.indices[j] \in 0..(Len(all_chunks) - 1)

\* The owner of each ranked chunk of the last search, in rank order.
RankedOwners ==
  [j \in 1..Len(resp.indices) |-> PyIndex(chunk_to_book, resp.indices[j])]

\* The rank at which a book is first met while walking the ranked chunks.
FirstMet(book) ==
  CHOOSE j \in 1..Len(RankedOwners) :
    RankedOwners[j] = book /\ \A h \in 1..(j - 1) : RankedOwners[h] # book

\* C8: a successful which-book returns one entry per distinct owner of the
\* ranked chunks, each with the number of ranked chunks it owns, by
\* descending mentions, and entries of equal mentions in the order in which
\* their books were first met in the ranked list.
C8_WhichBookOrder ==
  (resp.op = "which-book" /\ resp.status = 200) =>
    LET results == resp.body.results
    IN  /\ {results[i].book : i \in 1..Len(results)}
             = {RankedOwners[j] : j \in 1..Len(RankedOwners)}
        /\ \A i, k \in 1..Len(results) :
             results[i].book = results[k].book => i = k
        /\ \A i \in 1..Len(results) :
             results[i].mentions =
               Cardinality({j \in 1..Len(RankedOwners) :
                              RankedOwners[j] = results[i].book})
        /\ \A i, k \in 1..Len(results) :
             i < k =>
               \/ results[i].mentions > results[k].mentions
               \/ /\ results[i].mentions = results[k].mentions
                  /\ FirstMet(results[i].book) < FirstMet(results[k].book)

\* C8 witness: two books with equal mentions, the one uploaded second met
\* first in the ranking and listed first.
C8_Witness ==
  /\ resp.op = "which-book" /\ resp.status = 200
  /\ Len(resp.body.results) = 2
  /\ resp.body.results[1].mentions = resp.body.results[2].mentions
  /\ resp.body.results[1].book = chunk_to_book[2]
  /\ resp.body.results[2].book = chunk_to_book[1]

\* The number of whitespace-delimited words of a text: the positions where
\* a non-whitespace character follows whitespace or starts the text.
WordCount(text) ==
  Cardinality({i \in 1..Len(text) :
                 ~IsSpace(text[i]) /\ (i = 1 \/ IsSpace(text[i - 1]))})

\* The words of the first n chunks, in order.
RECURSIVE ChunkWords(_, _)
ChunkWords(chunks, n) ==
  IF n = 0 THEN <<>> ELSE ChunkWords(chunks, n - 1) \o str_split(chunks[n])

\* C9: for a text of W words and a chunk size C >= 1 the chunker returns
\* ceil(W/C) chunks, all but the last of C words, the last of W mod C words
\* (C when W is a positive multiple of C); the words of the chunks in order
\* are the words of the text; a text without words gives no chunk.
C9_ChunkerWindows ==
  split_call.returned =>
    LET W == WordCount(split_call.text)
        C == split_call.chunk_size
        chunks == split_call.chunks
        n == Len(chunks)
    IN  /\ n = (W + C - 1) \div C
        /\ \A k \in 1..(n - 1) : Len(str_split(chunks[k])) = C
        /\ n > 0 => Len(str_split(chunks[n])) = (IF W % C = 0 THEN C ELSE W % C)
        /\ ChunkWords(chunks, n) = str_split(split_call.text)
        /\ W = 0 => chunks = <<>>

\* C9 witness: a text of four words split by three gives a chunk of three
\* words and a chunk of one.
C9_Witness ==
  /\ split_call.returned
  /\ split_call.chunk_size = 3
  /\ WordCount(split_call.text) = 4
  /\ Len(split_call.chunks) = 2
  /\ Len(split_call.chunks[2]) = 1

\* C10: an upload of a readable file whose text gives no chunk is answered
\* 400, and every book in books_db has a chunk_count of at least 1 that is
\* the length of its chunks list.
C10_NoEmptyDocumentStored ==
  /\ ( /\ resp.op = "upload"
       /\ resp.request.has_file /\ resp.request.filename # ""
       /\ resp.request.file \in ReadablePdfs
       /\ chunked[resp.request.file] = <<>> ) => resp.status = 400
  /\ \A i \in 1..Len(books_db) :
       /\ books_db[i].chunk_count >= 1
       /\ books_db[i].chunk_count = Len(books_db[i].chunks)

\* C10 witness: the scan without text has just been rejected with 400 while
\* a book is stored.
C10_Witness ==
  /\ resp.op = "upload" /\ resp.status = 400
  /\ resp.request.file = "scanned" /\ resp.request.filename # ""
  /\ books_db # <<>>

\* Whether the step is an upload that stored its book (it returned 200, or
\* 500 from the index rebuild).
UploadStored == resp'.op = "upload" /\ uploaded' # uploaded

HasBook(db, name) == \E i \in 1..Len(db) : db[i].name = name

BookOf(db, name) == db[CHOOSE i \in 1..Len(db) : db[i].name = name]

\* C11 as stated: a successful upload under a name that is already present
\* leaves the document set with one more entry than before, the earlier
\* entry of that name among them.
C11_ReuploadAddsEntry ==
  [][(resp'.op = "upload" /\ resp'.status = 200
        /\ HasBook(books_db, resp'.request.filename)) =>
       /\ Len(books_db') = Len(books_db) + 1
       /\ resp'.body.total_books = Len(books_db) + 1
       /\ \E i \in 1..Len(books_db') :
            books_db'[i] = BookOf(books_db, resp'.request.filename)]_vars

\* C11 amended: an upload under a name that is already present is not
\* rejected (it returns 200 when nothing raises, and its chunks are added
\* to all_chunks), but the document set keeps its number of entries: the
\* entry of that name is replaced, and total_books is what it was.
C11_ReuploadReplacesEntry ==
  [][(resp'.op = "upload" /\ UploadEncodes(resp'.request)
        /\ HasBook(books_db, resp'.request.filename)) =>
       /\ resp'.status = 200 \/ (resp'.status = 500 /\ ~uploaded'[Len(uploaded')].ok)
       /\ Len(all_chunks') = Len(all_chunks) + Len(chunked[resp'.request.file])
       /\ Len(books_db') = Len(books_db)
       /\ \A i \in 1..Len(books_db) : books_db'[i].name = books_db[i].name
       /\ resp'.status = 200 => resp'.body.total_books = Len(books_db)]_vars

\* C11 witness: a name has been uploaded twice, the second time with 200,
\* and books_db holds one entry.
C11_Witness ==
  /\ resp.op = "upload" /\ resp.status = 200
  /\ Len(uploaded) = 2 /\ uploaded[1].name = uploaded[2].name
  /\ before.books = 1 /\ Len(books_db) = 1
  /\ resp.body.total_books = 1

\* C12: with handlers interleaved statement by statement, a reader never
\* finds all_chunks and chunk_to_book at different lengths: whenever an ask
\* is running while an upload or a clear is in progress, the two lists
\* are equally long.
C12_ReadersSeeEqualLengths ==
  (Running(threads.ask) /\ (Running(threads.upload) \/ Running(threads.clear))) =>
    Len(all_chunks) = Len(chunk_to_book)

\* C13: an ask interleaved with a clear (and with no upload) finds either
\* the whole corpus of before the clear or the empty state of after it: it
\* answers 200 with its passages, or 400; it never answers 500.
C13_ClearAtomicForAsk ==
  (threads.ask.pc = "done" /\ threads.ask.writers = {"clear"}) =>
    /\ threads.ask.status \in {200, 400}
    /\ threads.ask.status = 200 =>
         /\ Len(threads.ask.passages) = threads.ask.num_results
         /\ threads.ask.num_results > 0

IsPrefix(s, t) == Len(s) <= Len(t) /\ \A i \in 1..Len(s) : t[i] = s[i]

\* The part of t after its first n elements.
After(t, n) == [i \in 1..(Len(t) - n) |-> t[n + i]]

\* C14: between two clears the flat corpus only grows at its end. Every
\* step other than a clear keeps each position of all_chunks and
\* chunk_to_book that existed; an upload that stores its book adds that
\* book's chunks, in chunker order, as one block at the end, each owned by
\* the uploaded name; the index rebuild moves nothing (the index holds the
\* vectors of all_chunks in position order).
C14_AppendOnlyBetweenClears ==
  [][/\ resp'.op # "clear" =>
          IsPrefix(all_chunks, all_chunks') /\ IsPrefix(chunk_to_book, chunk_to_book')
     /\ UploadStored =>
          /\ After(all_chunks', Len(all_chunks)) = chunked[resp'.request.file]
          /\ After(chunk_to_book', Len(chunk_to_book)) =
               [i \in 1..Len(chunked[resp'.request.file]) |-> resp'.request.filename]
     /\ (resp'.op = "upload" /\ resp'.status = 200) =>
          /\ UploadStored
          /\ search_index'.vectors = encode(all_chunks')
     /\ (resp'.op = "upload" /\ ~UploadStored) =>
          UNCHANGED <<all_chunks, chunk_to_book>>]_vars

\* C14 witness: a successful upload of three chunks onto a corpus that
\* already held chunks.
C14_Witness ==
  /\ resp.op = "upload" /\ resp.status = 200
  /\ before.chunks > 0
  /\ Len(all_chunks) = before.chunks + 3

\* C15: an upload under a name that is already present replaces the
\* books_db entry of that name (the number of entries stays, chunk_count is
\* the new upload's), while the chunks of the earlier upload stay in
\* all_chunks at their positions, still owned by that name.
C15_ReuploadOverwritesSummaryKeepsChunks ==
  [][(UploadStored /\ HasBook(books_db, resp'.request.filename)) =>
       LET name == resp'.request.filename
           old == BookOf(books_db, name)
           new == BookOf(books_db', name)
       IN  /\ Len(books_db') = Len(books_db)
           /\ new.chunk_count = Len(chunked[resp'.request.file])
           /\ new.chunks = chunked[resp'.request.file]
           /\ \A i \in 1..Len(all_chunks) :
                all_chunks'[i] = all_chunks[i] /\ chunk_to_book'[i] = chunk_to_book[i]
           /\ Cardinality({i \in 1..Len(chunk_to_book) : chunk_to_book'[i] = name})
                >= old.chunk_count
           /\ Cardinality({i \in 1..Len(chunk_to_book') : chunk_to_book'[i] = name})
                >= old.chunk_count + new.chunk_count]_vars

\* C15 witness: a.pdf was stored with one chunk and stored again with
\* three; its entry counts three chunks while four chunks are owned by it.
C15_Witness ==
  /\ resp.op = "upload" /\ resp.status = 200
  /\ Len(uploaded) = 2 /\ uploaded[1].name = "a.pdf" /\ uploaded[2].name = "a.pdf"
  /\ uploaded[1].file = "two_pages" /\ uploaded[2].file = "big"
  /\ Len(books_db) = 1 /\ books_db[1].chunk_count = 3
  /\ Len(all_chunks) = 4 /\ \A i \in 1..4 : chunk_to_book[i] = "a.pdf"
  /\ all_chunks[1] = chunked["two_pages"][1]

\* C16: input errors are answered 400, never 500. A question or topic
\* that is missing (no JSON body, or a body without the key) or blank gets
\* 400; an upload without a file part or with an empty filename gets 400;
\* and every request is answered 200, 400 or 500.
C16_InputErrorsAre400 ==
  /\ resp.status \in {200, 400, 500}
  /\ (IsQuery(resp) /\ (~resp.request.is_json \/ ~resp.request.has_key
                          \/ strip(resp.request.value) = <<>>)) =>
       resp.status = 400
  /\ (resp.op = "upload" /\ (~resp.request.has_file \/ resp.request.filename = "")) =>
       resp.status = 400

\* C17: the queries are read-only. A step of home, list_books, ask or
\* which-book, whatever its status, leaves books_db, all_chunks,
\* chunk_to_book and search_index as they were; a step that changes any of
\* them is an upload or a clear.
C17_QueriesReadOnly ==
  [][/\ resp'.op \in {"home", "books", "ask", "which-book"} =>
          UNCHANGED index_state
     /\ index_state' # index_state => resp'.op \in {"upload", "clear"}]_vars

\* C17 witness: a question answered 200 over a corpus of four chunks, the
\* sizes being the ones the request found.
C17_Witness ==
  /\ resp.op = "ask" /\ resp.status = 200
  /\ before = Sizes /\ before.chunks = 4 /\ before.books = 2

\* The element lst[idx] of Python, a negative idx counting from the end.
At(lst, idx) == lst[IF idx >= 0 THEN idx + 1 ELSE Len(lst) + idx + 1]

\* C18: in every successful ask, passage j names the owner of the label
\* idx_j and carries the (truncated) chunk of that same label; books_used
\* is the set of those owners and is not empty; and every name in it is a
\* document of books_db.
C18_PassagesAttributedToOwners ==
  (resp.op = "ask" /\ resp.status = 200) =>
    LET idx      == resp.indices
        passages == resp.body.passages
    IN  /\ Len(passages) = Len(idx) /\ Len(idx) > 0
        /\ \A j \in 1..Len(idx) :
             /\ passages[j].book = At(chunk_to_book, idx[j])
             /\ passages[j].text = Truncate(At(all_chunks, idx[j]))
        /\ resp.body.books_used = {passages[j].book : j \in 1..Len(idx)}
        /\ resp.body.books_used # {}
        /\ \A book \in resp.body.books_used : HasBook(books_db, book)

\* C18 witness: a successful ask whose best passage is not chunk 0, with a
\* passage cut to 300 characters, and whose passages come from two books.
C18_Witness ==
  /\ resp.op = "ask" /\ resp.status = 200
  /\ resp.indices[1] > 0
  /\ \E j \in 1..Len(resp.indices) : Len(resp.body.passages[j].text) = 303
  /\ Cardinality(resp.body.books_used) = 2

\* C19: the ids of the documents stored in books_db are pairwise distinct
\* in every reachable state, uploads under an existing name included.
C19_IdsUnique ==
  \A i, j \in 1..Len(books_db) :
    i # j => books_db[i].id # books_db[j].id

====
